---- MODULE Spec2Model ----
(***************************************************************************)
(* Badge and achievements worker: the Pub/Sub push controller              *)
(* (handleBadgeAwarding), the four badge workers of BadgeWorkerService,    *)
(* the activity repositories' predicate queries and the badge ledger.      *)
(*                                                                         *)
(* One action is one resumption of an async function: the storage          *)
(* operation that was awaited takes effect and the continuation runs up to *)
(* the next await (or to the response).                                    *)
(***************************************************************************)
EXTENDS Integers, FiniteSets, Sequences, TLC

\* ------------------------------------------------------------------ bounds
MaxDay == 14          \* UTC days 1..MaxDay carry the streak of a profile
MaxFaults == 1        \* storage operations that may go wrong in one run
MaxSpan == 4          \* the latest days, on which collaborators write records
MaxRecords == 4       \* records the collaborators write into one table
MaxSessions == 2      \* flip-and-feel sessions the collaborators start
MaxDates == 8         \* UTC days 1..MaxDates, every set of which is a history

\* ------------------------------------------------------- program constants
Users == {"u1", "u2"}
Reqs == {"r1", "r2"}
Days == 1..(MaxDay + 1)
NoDay == 0            \* finished_at IS NULL
NoUser == ""          \* payload without userId
NoEvent == ""         \* payload without eventType

Categories ==
  {"school", "opposite_sex", "peers", "family", "crises", "emotions", "recreation"}

validCategories ==
  <<"school", "opposite_sex", "peers", "family", "crises", "emotions", "recreation">>

EventTypes ==
  {"JOURNAL_ENTRY_CREATED", "FLIP_FEEL_ENTRY_CREATED",
   "MOOD_CHECKIN_CREATED", "GRATITUDE_ENTRY_CREATED"}

badges ==
  [ JOURNAL_FIRST_ENTRY |-> "New Beginnings",
    JOURNAL_3_STREAK |-> "Mindful Momentum",
    JOURNAL_7_STREAK |-> "Mind Gardener",
    JOURNAL_10_ENTRIES |-> "Voice of Reflection",
    JOURNAL_20_ENTRIES |-> "Journey Within",
    JOURNAL_30_ENTRIES |-> "Keeper of Insight",
    FLIP_AND_FEEL_FIRST |-> "First Step Inward",
    FLIP_AND_FEEL_ALL_CATEGORIES |-> "Emotional Explorer",
    FLIP_AND_FEEL_7_STREAK |-> "Steady Self-Reflector",
    GRATITUDE_FIRST_ENTRY |-> "Grateful Heart",
    GRATITUDE_10_ENTRIES |-> "Growing Gratitude",
    GRATITUDE_25_ENTRIES |-> "Mindful Appreciator",
    GRATITUDE_50_ENTRIES |-> "Beacon of Gratitude",
    GRATITUDE_100_ENTRIES |-> "Radiant Gratitude",
    GRATITUDE_3_STREAK |-> "Thankful Thinker",
    GRATITUDE_7_STREAK |-> "Appreciation Advocate",
    MOOD_CHECKIN_7_STREAK |-> "Steady Observer",
    MOOD_CHECKIN_14_STREAK |-> "Balanced Mind Keeper" ]

BadgeNames == {badges[k] : k \in DOMAIN badges}

\* One step of a worker: the rule key, the repository method and its argument.
Rule(k, q, n) == [key |-> k, query |-> q, n |-> n]

\* Variant: the block of JOURNAL_10_ENTRIES asks for 20 entries.
journalBadgeWorker_WrongCount ==
  << Rule("JOURNAL_FIRST_ENTRY", "hasFirstEntry", 0),
     Rule("JOURNAL_3_STREAK", "hasConsecutiveDays", 3),
     Rule("JOURNAL_7_STREAK", "hasConsecutiveDays", 7),
     Rule("JOURNAL_10_ENTRIES", "hasReachedEntryCount", 20),
     Rule("JOURNAL_20_ENTRIES", "hasReachedEntryCount", 20),
     Rule("JOURNAL_30_ENTRIES", "hasReachedEntryCount", 30) >>

journalBadgeWorker ==
  << Rule("JOURNAL_FIRST_ENTRY", "hasFirstEntry", 0),
     Rule("JOURNAL_3_STREAK", "hasConsecutiveDays", 3),
     Rule("JOURNAL_7_STREAK", "hasConsecutiveDays", 7),
     Rule("JOURNAL_10_ENTRIES", "hasReachedEntryCount", 10),
     Rule("JOURNAL_20_ENTRIES", "hasReachedEntryCount", 20),
     Rule("JOURNAL_30_ENTRIES", "hasReachedEntryCount", 30) >>

flipAndFeelBadgeWorker ==
  << Rule("FLIP_AND_FEEL_FIRST", "hasFirstEntry", 0),
     Rule("FLIP_AND_FEEL_ALL_CATEGORIES", "hasCompletedAllCategories", Len(validCategories)),
     Rule("FLIP_AND_FEEL_7_STREAK", "hasConsecutiveDays", 7) >>

\* Variant: the second block of the mood worker names a journal badge.
moodBadgeWorker_JournalBadge ==
  << Rule("MOOD_CHECKIN_7_STREAK", "hasConsecutiveDays", 7),
     Rule("JOURNAL_7_STREAK", "hasConsecutiveDays", 14) >>

moodBadgeWorker ==
  << Rule("MOOD_CHECKIN_7_STREAK", "hasConsecutiveDays", 7),
     Rule("MOOD_CHECKIN_14_STREAK", "hasConsecutiveDays", 14) >>

gratitudeBadgeWorker ==
  << Rule("GRATITUDE_FIRST_ENTRY", "hasFirstEntry", 0),
     Rule("GRATITUDE_10_ENTRIES", "hasReachedEntryCount", 10),
     Rule("GRATITUDE_25_ENTRIES", "hasReachedEntryCount", 25),
     Rule("GRATITUDE_50_ENTRIES", "hasReachedEntryCount", 50),
     Rule("GRATITUDE_100_ENTRIES", "hasReachedEntryCount", 100),
     Rule("GRATITUDE_3_STREAK", "hasConsecutiveDays", 3),
     Rule("GRATITUDE_7_STREAK", "hasConsecutiveDays", 7) >>

\* Variant: the cases of the switch for the journal and the gratitude events
\* call each other's worker.
WorkerOf_Swapped(eventType) ==
  CASE eventType = "JOURNAL_ENTRY_CREATED" -> gratitudeBadgeWorker
    [] eventType = "FLIP_FEEL_ENTRY_CREATED" -> flipAndFeelBadgeWorker
    [] eventType = "MOOD_CHECKIN_CREATED" -> moodBadgeWorker
    [] eventType = "GRATITUDE_ENTRY_CREATED" -> journalBadgeWorker
    [] OTHER -> << >>

\* The switch of handleBadgeAwarding: event type -> worker.
WorkerOf(eventType) ==
  CASE eventType = "JOURNAL_ENTRY_CREATED" -> journalBadgeWorker
    [] eventType = "FLIP_FEEL_ENTRY_CREATED" -> flipAndFeelBadgeWorker
    [] eventType = "MOOD_CHECKIN_CREATED" -> moodBadgeWorker
    [] eventType = "GRATITUDE_ENTRY_CREATED" -> gratitudeBadgeWorker
    [] OTHER -> << >>

VARIABLES
  journal_entries,    \* [user -> [day -> [live, del]]]: rows per UTC day of created_at
  gratitude_entries,  \* [user -> [day -> [live, del]]]
  mood_check_ins,     \* [user -> [day -> rows]]: rows per UTC day of checked_in_at
  flip_feel,          \* [user -> set of sessions [id, started_at, finished_at, cats]]
  user_badges,        \* [user -> [badge_name -> number of GrantRecords]]
  faults,             \* storage operations that went wrong so far
  granted,            \* [user -> [badge_name -> grantBadgeByName calls that returned]]
  req                 \* [request -> the state of its handleBadgeAwarding call]

tables == <<journal_entries, gratitude_entries, mood_check_ins, flip_feel>>
vars == <<journal_entries, gratitude_entries, mood_check_ins, flip_feel,
          user_badges, faults, granted, req>>

\* ------------------------------------------------------ activity repositories
RECURSIVE SumTo(_, _)
\* COUNT(*) over a per-day row count f, days 1..d.
SumTo(f, d) == IF d = 0 THEN 0 ELSE f[d] + SumTo(f, d - 1)

\* Variant: ROW_NUMBER() OVER (ORDER BY date DESC).
RowNumber_Desc(dates, d) == Cardinality({e \in dates : e >= d})

\* ROW_NUMBER() OVER (ORDER BY date) of date d among the distinct dates.
RowNumber(dates, d) == Cardinality({e \in dates : e <= d})

\* Variant: the distinct dates are counted, adjacent or not.
ExistsStreak_AnyDays(dates, consecutiveDays) ==
  Cardinality(dates) >= consecutiveDays

\* The consecutive_days / streak_lengths CTEs and the final EXISTS.
ExistsStreak(dates, consecutiveDays) ==
  LET grp(d) == d - RowNumber(dates, d)
      streak_length(g) == Cardinality({d \in dates : grp(d) = g})
  IN \E g \in {grp(d) : d \in dates} : streak_length(g) >= consecutiveDays

\* Variant: no is_deleted = false in the WHERE clause.
Entry_hasFirstEntry_AnyRow(t, user_id) ==
  \E d \in Days : t[user_id][d].live + t[user_id][d].del > 0

\* JournalEntryRepository / GratitudeEntryRepository (t is the table).
Entry_hasFirstEntry(t, user_id) ==
  \E d \in Days : t[user_id][d].live > 0

Entry_hasConsecutiveDays(t, user_id, consecutiveDays) ==
  ExistsStreak({d \in Days : t[user_id][d].live > 0}, consecutiveDays)

\* Variant: COUNT(*) > $2.
Entry_hasReachedEntryCount_Strict(t, user_id, entryCount) ==
  SumTo([d \in Days |-> t[user_id][d].live], MaxDay + 1) > entryCount

Entry_hasReachedEntryCount(t, user_id, entryCount) ==
  SumTo([d \in Days |-> t[user_id][d].live], MaxDay + 1) >= entryCount

\* MoodCheckInRepository
Mood_hasConsecutiveDays(user_id, consecutiveDays) ==
  ExistsStreak({d \in Days : mood_check_ins[user_id][d] > 0}, consecutiveDays)

\* FlipFeelRepository
Flip_hasFirstEntry(user_id) ==
  \E s \in flip_feel[user_id] : s.finished_at # NoDay

\* Variant: no finished_at IS NOT NULL in the WHERE clause.
Flip_hasCompletedAllCategories_AnySession(user_id, n) ==
  LET cats == UNION {s.cats : s \in flip_feel[user_id]}
      matching == {c \in cats : \E i \in 1..Len(validCategories) : validCategories[i] = c}
  IN Cardinality(matching) >= n

Flip_hasCompletedAllCategories(user_id, n) ==
  LET cats == UNION {s.cats : s \in {x \in flip_feel[user_id] : x.finished_at # NoDay}}
      matching == {c \in cats : \E i \in 1..Len(validCategories) : validCategories[i] = c}
  IN Cardinality(matching) >= n

\* Variant: the dates are those of started_at, of every session.
Flip_hasConsecutiveDays_ByStart(user_id, consecutiveDays) ==
  ExistsStreak({s.started_at : s \in flip_feel[user_id]}, consecutiveDays)

Flip_hasConsecutiveDays(user_id, consecutiveDays) ==
  ExistsStreak({s.finished_at : s \in {x \in flip_feel[user_id] : x.finished_at # NoDay}},
               consecutiveDays)

\* The boolean column of the single row the SQL of a rule's query yields.
SqlRow(eventType, r, user_id) ==
  CASE eventType = "JOURNAL_ENTRY_CREATED" ->
         (CASE r.query = "hasFirstEntry" -> Entry_hasFirstEntry(journal_entries, user_id)
            [] r.query = "hasConsecutiveDays" ->
                 Entry_hasConsecutiveDays(journal_entries, user_id, r.n)
            [] OTHER -> Entry_hasReachedEntryCount(journal_entries, user_id, r.n))
    [] eventType = "GRATITUDE_ENTRY_CREATED" ->
         (CASE r.query = "hasFirstEntry" -> Entry_hasFirstEntry(gratitude_entries, user_id)
            [] r.query = "hasConsecutiveDays" ->
                 Entry_hasConsecutiveDays(gratitude_entries, user_id, r.n)
            [] OTHER -> Entry_hasReachedEntryCount(gratitude_entries, user_id, r.n))
    [] eventType = "MOOD_CHECKIN_CREATED" -> Mood_hasConsecutiveDays(user_id, r.n)
    [] OTHER ->
         (CASE r.query = "hasFirstEntry" -> Flip_hasFirstEntry(user_id)
            [] r.query = "hasConsecutiveDays" -> Flip_hasConsecutiveDays(user_id, r.n)
            [] OTHER -> Flip_hasCompletedAllCategories(user_id, r.n))

\* Variant: return result[0]?.exists ?? true
FirstRowOrFalse_OrTrue(result) == IF Len(result) = 0 THEN TRUE ELSE result[1]

\* return result[0]?.exists ?? false   (result is the sequence of rows)
FirstRowOrFalse(result) == IF Len(result) = 0 THEN FALSE ELSE result[1]

\* ------------------------------------------------------------- badge ledger
getUserBadges(user_id) == {b \in BadgeNames : user_badges[user_id][b] > 0}

\* Variant: a plain INSERT, whether or not the user holds the badge.
grantBadgeByName_AlwaysInsert(user_id, badge_name) ==
  [user_badges EXCEPT ![user_id][badge_name] = @ + 1]

\* Variant: the grant of a badge the user holds replaces the user's records.
grantBadgeByName_Replace(user_id, badge_name) ==
  IF user_badges[user_id][badge_name] > 0
    THEN [user_badges EXCEPT ![user_id] = [b \in BadgeNames |-> IF b = badge_name THEN 1 ELSE 0]]
    ELSE [user_badges EXCEPT ![user_id][badge_name] = 1]

\* Variant: DELETE the user's records, then INSERT the new one.
grantBadgeByName_Reset(user_id, badge_name) ==
  [user_badges EXCEPT ![user_id] = [b \in BadgeNames |-> IF b = badge_name THEN 1 ELSE 0]]

grantBadgeByName(user_id, badge_name) ==
  IF user_badges[user_id][badge_name] > 0
    THEN user_badges
    ELSE [user_badges EXCEPT ![user_id][badge_name] = 1]

\* ------------------------------------------------------------- histories
\* A history profile: rows on each of the days 1..n, c rows a day, then one
\* soft-deleted row (an unfinished session) on day n+1.
Profile(n, c) == [n |-> n, c |-> c]
Profiles == {Profile(0, 1), Profile(3, 1), Profile(7, 2), Profile(MaxDay, 8)}
OtherProfile == Profile(3, 1)

EntryTable(p) ==
  [d \in Days |-> IF d <= p.n THEN [live |-> p.c, del |-> 0]
                  ELSE IF d = p.n + 1 THEN [live |-> 0, del |-> 1]
                  ELSE [live |-> 0, del |-> 0]]

MoodTable(p) == [d \in Days |-> IF d <= p.n THEN p.c ELSE 0]

FlipTable(p) ==
  {[id |-> k, started_at |-> k, finished_at |-> k,
    cats |-> {validCategories[((k - 1) % Len(validCategories)) + 1]}] : k \in 1..p.n}
  \cup {[id |-> p.n + 1, started_at |-> p.n + 1, finished_at |-> NoDay,
         cats |-> Categories]}

\* ------------------------------------------------------------- controller
Errors == {"ECONNREFUSED", "ETIMEDOUT"}

\* Request bodies: the Pub/Sub envelope and what its data decodes to.
Body(m, d, j, e, u) == [message |-> m, data |-> d, json |-> j, eventType |-> e, userId |-> u]

Bodies ==
  {Body(TRUE, TRUE, TRUE, e, "u1") : e \in EventTypes}
  \cup {Body(TRUE, TRUE, TRUE, "JOURNAL_ENTRY_CREATED", "u2"),
        Body(FALSE, FALSE, FALSE, NoEvent, NoUser),
        Body(TRUE, FALSE, FALSE, NoEvent, NoUser),
        Body(TRUE, TRUE, FALSE, NoEvent, NoUser),
        Body(TRUE, TRUE, TRUE, NoEvent, "u1"),
        Body(TRUE, TRUE, TRUE, "JOURNAL_ENTRY_CREATED", NoUser),
        Body(TRUE, TRUE, TRUE, "BADGE_REVOKED", "u1")}

IdleReq ==
  [pc |-> "idle", body |-> Body(FALSE, FALSE, FALSE, NoEvent, NoUser), rule |-> 0,
   badgeNames |-> {}, worker |-> "none", thrown |-> "none", rejected |-> "none",
   status |-> 0, sent |-> "", queried |-> {}, grantCalls |-> {}, second |-> FALSE,
   histChanged |-> FALSE, responses |-> 0]

\* res.status(code).json({error}) / res.status(204).send(), then return: the
\* locals of the call (and what it is recorded to have issued) are gone.
Respond(q, code, text) ==
  [q EXCEPT !.pc = "done", !.status = code, !.sent = text, !.rule = 0,
            !.badgeNames = {}, !.queried = {}, !.grantCalls = {},
            !.histChanged = FALSE, !.responses = @ + 1]

\* Variant: no badgeNames.has() test, every rule is evaluated.
NextRule_NoSkip(w, names, i) == IF i < Len(w) THEN i + 1 ELSE 0

\* Variant: each has() test after the first names the badge of the rule before.
NextRule_PrevBadge(w, names, i) ==
  LET todo == {j \in (i + 1)..Len(w) : badges[w[IF j > 1 THEN j - 1 ELSE j].key] \notin names}
  IN IF todo = {} THEN 0 ELSE CHOOSE j \in todo : \A k \in todo : j <= k

\* The first rule after index i whose badge is not in the loaded Set (0: none).
NextRule(w, names, i) ==
  LET todo == {j \in (i + 1)..Len(w) : badges[w[j].key] \notin names}
  IN IF todo = {} THEN 0 ELSE CHOOSE j \in todo : \A k \in todo : j <= k

\* Variant: each has() test is made on the grants the ledger holds by then.
Continue_Reload(q, i) ==
  LET w == WorkerOf(q.body.eventType)
      j == NextRule(w, q.badgeNames \cup getUserBadges(q.body.userId), i)
  IN IF j = 0
       THEN Respond([q EXCEPT !.worker = "ok", !.rule = 0], 204, "")
       ELSE [q EXCEPT !.pc = "query", !.rule = j, !.queried = @ \cup {w[j].key}]

\* The worker goes on after rule i: it issues the next query, or it returns
\* and the controller answers 204.
Continue(q, i) ==
  LET w == WorkerOf(q.body.eventType)
      j == NextRule(w, q.badgeNames, i)
  IN IF j = 0
       THEN Respond([q EXCEPT !.worker = "ok", !.rule = 0], 204, "")
       ELSE [q EXCEPT !.pc = "query", !.rule = j, !.queried = @ \cup {w[j].key}]

\* Variant: the worker's catch logs the error and does not rethrow.
Fail_Swallow(q, e) ==
  Respond([q EXCEPT !.worker = "ok", !.thrown = e], 204, "")

\* Variant: a try/catch around each rule, the worker goes on with the next rule.
Fail_NextRule(q, e) ==
  IF q.pc = "load" THEN Respond([q EXCEPT !.worker = "err", !.thrown = e, !.rejected = e], 500, e)
  ELSE [Continue(q, q.rule) EXCEPT !.thrown = e]

\* Variant: the first error of a pass is caught and the operation is awaited
\* again.
Fail_RetryOnce(q, e) ==
  IF q.thrown = "none"
    THEN [q EXCEPT !.thrown = e]
    ELSE Respond([q EXCEPT !.worker = "err", !.thrown = e, !.rejected = e], 500, e)

\* A storage operation raised e: the worker's catch logs and rethrows, the
\* controller's catch answers 500 with error.message.
Fail(q, e) ==
  Respond([q EXCEPT !.worker = "err", !.thrown = e, !.rejected = e], 500, e)

\* Variant: the default case of the switch does not return, the unknown event
\* type falls through to the 204.
handleBadgeAwarding_DefaultFallsThrough(b, isSecond) ==
  LET q == [IdleReq EXCEPT !.body = b]
  IN IF ~b.message THEN Respond(q, 400, "Bad Request: Invalid message format")
     ELSE IF ~b.data THEN Respond(q, 400, "Bad Request: No data field")
     ELSE IF ~b.json THEN Respond(q, 500, "SyntaxError")
     ELSE IF b.eventType = NoEvent \/ b.userId = NoUser
       THEN Respond(q, 400, "Bad Request: Missing eventType or userId")
     ELSE IF b.eventType \in EventTypes
       THEN [q EXCEPT !.pc = "load", !.worker = "running", !.second = isSecond]
     ELSE Respond(q, 204, "")

\* Variant: the worker is called without await, the 204 is sent at once.
handleBadgeAwarding_NoAwait(b, isSecond) ==
  LET q == [IdleReq EXCEPT !.body = b]
  IN IF ~b.message THEN Respond(q, 400, "Bad Request: Invalid message format")
     ELSE IF ~b.data THEN Respond(q, 400, "Bad Request: No data field")
     ELSE IF ~b.json THEN Respond(q, 500, "SyntaxError")
     ELSE IF b.eventType = NoEvent \/ b.userId = NoUser
       THEN Respond(q, 400, "Bad Request: Missing eventType or userId")
     ELSE IF b.eventType \in EventTypes
       THEN [q EXCEPT !.pc = "load", !.worker = "running", !.second = isSecond,
                      !.status = 204]
     ELSE Respond(q, 400, "Unknown event type")

\* Variant: no return after the 400 of the missing data field: the decoding
\* of the missing data throws and the catch sends the 500 as well.
handleBadgeAwarding_NoReturn(b, isSecond) ==
  LET q == [IdleReq EXCEPT !.body = b]
  IN IF ~b.message THEN Respond(q, 400, "Bad Request: Invalid message format")
     ELSE IF ~b.data
       THEN Respond(Respond(q, 400, "Bad Request: No data field"), 500, "TypeError")
     ELSE IF ~b.json THEN Respond(q, 500, "SyntaxError")
     ELSE IF b.eventType = NoEvent \/ b.userId = NoUser
       THEN Respond(q, 400, "Bad Request: Missing eventType or userId")
     ELSE IF b.eventType \in EventTypes
       THEN [q EXCEPT !.pc = "load", !.worker = "running", !.second = isSecond]
     ELSE Respond(q, 400, "Unknown event type")

\* handleBadgeAwarding up to its first await.
handleBadgeAwarding(b, isSecond) ==
  LET q == [IdleReq EXCEPT !.body = b]
  IN IF ~b.message THEN Respond(q, 400, "Bad Request: Invalid message format")
     ELSE IF ~b.data THEN Respond(q, 400, "Bad Request: No data field")
     ELSE IF ~b.json THEN Respond(q, 500, "SyntaxError")
     ELSE IF b.eventType = NoEvent \/ b.userId = NoUser
       THEN Respond(q, 400, "Bad Request: Missing eventType or userId")
     ELSE IF b.eventType \in EventTypes
       THEN [q EXCEPT !.pc = "load", !.worker = "running", !.second = isSecond]
     ELSE Respond(q, 400, "Unknown event type")

\* A pass for the trigger of body b has ended before, in request r or another.
PassEnded(r, b) ==
  \E o \in Reqs : req[o].body = b /\ req[o].pc = "done" /\ req[o].worker \in {"ok", "err"}

Init ==
  /\ \E p1 \in Profiles :
       LET p == [u \in Users |-> IF u = "u1" THEN p1 ELSE OtherProfile]
       IN /\ journal_entries = [u \in Users |-> EntryTable(p[u])]
          /\ gratitude_entries = [u \in Users |-> EntryTable(p[u])]
          /\ mood_check_ins = [u \in Users |-> MoodTable(p[u])]
          /\ flip_feel = [u \in Users |-> FlipTable(p[u])]
  /\ user_badges = [u \in Users |-> [b \in BadgeNames |-> 0]]
  /\ granted = [u \in Users |-> [b \in BadgeNames |-> 0]]
  /\ faults = 0
  /\ req = [r \in Reqs |-> IdleReq]

\* Two deliveries are handled at the same time only when they carry the same
\* message (a duplicate); deliveries of different messages are taken in turn.
MayStart(r, b) ==
  \A o \in Reqs \ {r} : req[o].pc \in {"idle", "done"} \/ req[o].body = b

\* Pub/Sub pushes a message to the endpoint (requests are named in the order
\* of their arrival).
Receive(r, b) ==
  /\ req[r].pc = "idle"
  /\ r = "r1" \/ req["r1"].pc # "idle"
  /\ MayStart(r, b)
  /\ req' = [req EXCEPT ![r] = handleBadgeAwarding(b, PassEnded(r, b))]
  /\ UNCHANGED <<tables, user_badges, granted, faults>>

\* Pub/Sub pushes the message again after a 500.
Redeliver(r) ==
  /\ req[r].pc = "done"
  /\ req[r].status = 500
  /\ MayStart(r, req[r].body)
  /\ req' = [req EXCEPT ![r] = handleBadgeAwarding(req[r].body, PassEnded(r, req[r].body))]
  /\ UNCHANGED <<tables, user_badges, granted, faults>>

\* await this.badgesRepo.getUserBadges(userId) resumes.
Load(r) ==
  /\ req[r].pc = "load"
  /\ \/ /\ req' = [req EXCEPT ![r] =
                     Continue([req[r] EXCEPT !.badgeNames = getUserBadges(req[r].body.userId)], 0)]
        /\ UNCHANGED faults
     \/ /\ faults < MaxFaults
        /\ faults' = faults + 1
        /\ \E e \in Errors : req' = [req EXCEPT ![r] = Fail(req[r], e)]
  /\ UNCHANGED <<tables, user_badges, granted>>

\* Variant: the journal queries first DELETE the user's soft-deleted rows.
Query_Purging(r) ==
  LET q == req[r]
      w == WorkerOf(q.body.eventType)
      row == SqlRow(q.body.eventType, w[q.rule], q.body.userId)
      after(result) ==
        IF FirstRowOrFalse(result)
          THEN [q EXCEPT !.pc = "grant", !.grantCalls = @ \cup {badges[w[q.rule].key]}]
          ELSE Continue(q, q.rule)
  IN /\ q.pc = "query"
     /\ \/ /\ req' = [req EXCEPT ![r] = after(<<row>>)]
           /\ UNCHANGED faults
        \/ /\ faults < MaxFaults
           /\ faults' = faults + 1
           /\ \/ req' = [req EXCEPT ![r] = after(<< >>)]
              \/ \E e \in Errors : req' = [req EXCEPT ![r] = Fail(q, e)]
     /\ journal_entries' =
          IF q.body.eventType = "JOURNAL_ENTRY_CREATED"
            THEN [journal_entries EXCEPT ![q.body.userId] =
                    [d \in Days |-> [live |-> @[d].live, del |-> 0]]]
            ELSE journal_entries
     /\ UNCHANGED <<gratitude_entries, mood_check_ins, flip_feel, user_badges, granted>>

\* await <repo>.<query>(userId, n) resumes.
Query(r) ==
  LET q == req[r]
      w == WorkerOf(q.body.eventType)
      row == SqlRow(q.body.eventType, w[q.rule], q.body.userId)
      after(result) ==
        IF FirstRowOrFalse(result)
          THEN [q EXCEPT !.pc = "grant", !.grantCalls = @ \cup {badges[w[q.rule].key]}]
          ELSE Continue(q, q.rule)
  IN /\ q.pc = "query"
     /\ \/ /\ req' = [req EXCEPT ![r] = after(<<row>>)]
           /\ UNCHANGED faults
        \/ /\ faults < MaxFaults
           /\ faults' = faults + 1
           /\ \/ req' = [req EXCEPT ![r] = after(<< >>)]
              \/ \E e \in Errors : req' = [req EXCEPT ![r] = Fail(q, e)]
     /\ UNCHANGED <<tables, user_badges, granted>>

\* await this.badgesRepo.grantBadgeByName(userId, name) resumes.
Grant(r) ==
  LET q == req[r]
      w == WorkerOf(q.body.eventType)
      name == badges[w[q.rule].key]
  IN /\ q.pc = "grant"
     /\ \/ /\ user_badges' = grantBadgeByName(q.body.userId, name)
           /\ granted' = [granted EXCEPT ![q.body.userId][name] = @ + 1]
           /\ req' = [req EXCEPT ![r] = Continue(q, q.rule)]
           /\ UNCHANGED faults
        \/ /\ faults < MaxFaults
           /\ faults' = faults + 1
           /\ \E e \in Errors : req' = [req EXCEPT ![r] = Fail(q, e)]
           /\ UNCHANGED <<user_badges, granted>>
     /\ UNCHANGED tables

Next ==
  \/ \E r \in Reqs, b \in Bodies : Receive(r, b)
  \/ \E r \in Reqs : Redeliver(r)
  \/ \E r \in Reqs : Load(r)
  \/ \E r \in Reqs : Query(r)
  \/ \E r \in Reqs : Grant(r)

Spec == Init /\ [][Next]_vars

\* Deliveries strictly one after the other: a request is handled only when no
\* other request is being handled.
NoneRunning == \A o \in Reqs : req[o].pc \in {"idle", "done"}

SeqNext ==
  \/ \E r \in Reqs, b \in Bodies : NoneRunning /\ Receive(r, b)
  \/ \E r \in Reqs : NoneRunning /\ Redeliver(r)
  \/ \E r \in Reqs : Load(r)
  \/ \E r \in Reqs : Query(r)
  \/ \E r \in Reqs : Grant(r)

SeqSpec == Init /\ [][SeqNext]_vars

TypeOK ==
  /\ faults \in 0..MaxFaults
  /\ \A r \in Reqs : req[r].status \in {0, 204, 400, 500}

\* ------------------------------------------------------------ vocabulary
Running(r) == req[r].pc \in {"load", "query", "grant"}

\* The badge names of a worker's rules.
DomainBadges(eventType) ==
  {badges[WorkerOf(eventType)[i].key] : i \in DOMAIN WorkerOf(eventType)}

\* The badges of a domain whose predicate holds for the user on the tables.
Qualifying(eventType, user_id) ==
  {badges[WorkerOf(eventType)[i].key] :
     i \in {j \in DOMAIN WorkerOf(eventType) :
              SqlRow(eventType, WorkerOf(eventType)[j], user_id)}}

\* ------------------------------------------------------------ collaborators
\* The activity API writes the tables the workers read: it inserts entries,
\* check-ins, sessions and responses, soft-deletes entries, finishes sessions.
\* It writes on the latest days.
Recent == (MaxDay + 2 - MaxSpan)..(MaxDay + 1)

\* The records of a user written on the latest days, per domain.
WrittenIn(eventType, user_id) ==
  LET slots == Recent \X (1..MaxRecords)
      entries(t) ==
        Cardinality({x \in slots : x[2] <= t[user_id][x[1]].live + t[user_id][x[1]].del})
  IN CASE eventType = "JOURNAL_ENTRY_CREATED" -> entries(journal_entries)
       [] eventType = "GRATITUDE_ENTRY_CREATED" -> entries(gratitude_entries)
       [] eventType = "MOOD_CHECKIN_CREATED" ->
            Cardinality({x \in slots : x[2] <= mood_check_ins[user_id][x[1]]})
       [] OTHER -> Cardinality({s \in flip_feel[user_id] : s.started_at \in Recent})

\* The collaborators have written no record of the user in the domain on
\* the latest days.
Quiet(eventType, user_id) ==
  CASE eventType = "JOURNAL_ENTRY_CREATED" ->
         \A d \in Recent : journal_entries[user_id][d] = [live |-> 0, del |-> 0]
    [] eventType = "GRATITUDE_ENTRY_CREATED" ->
         \A d \in Recent : gratitude_entries[user_id][d] = [live |-> 0, del |-> 0]
    [] eventType = "MOOD_CHECKIN_CREATED" ->
         \A d \in Recent : mood_check_ins[user_id][d] = 0
    [] OTHER -> \A s \in flip_feel[user_id] : s.started_at \notin Recent

\* The requests after a write into the history of (eventType, user_id): a
\* pass of that domain and user that has decided a rule already is marked, its
\* later rules read another history than the decided ones.
Observed(eventType, user_id) ==
  [r \in Reqs |->
     LET q == req[r]
         w == WorkerOf(q.body.eventType)
         decided == q.queried \ (IF q.pc = "query" THEN {w[q.rule].key} ELSE {})
     IN IF /\ q.pc \in {"query", "grant"}
           /\ q.body.eventType = eventType /\ q.body.userId = user_id
           /\ decided # {}
          THEN [q EXCEPT !.histChanged = TRUE]
          ELSE q]

\* INSERT INTO journal_entries / gratitude_entries (is_deleted = false).
CreateEntry(eventType, user_id, d) ==
  /\ WrittenIn(eventType, user_id) < MaxRecords
  /\ IF eventType = "JOURNAL_ENTRY_CREATED"
       THEN /\ journal_entries' = [journal_entries EXCEPT ![user_id][d].live = @ + 1]
            /\ UNCHANGED gratitude_entries
       ELSE /\ gratitude_entries' = [gratitude_entries EXCEPT ![user_id][d].live = @ + 1]
            /\ UNCHANGED journal_entries
  /\ req' = Observed(eventType, user_id)
  /\ UNCHANGED <<mood_check_ins, flip_feel, user_badges, granted, faults>>

\* UPDATE ... SET is_deleted = true on one entry of day d.
SoftDeleteEntry(eventType, user_id, d) ==
  LET deleted(row) == [live |-> row.live - 1, del |-> row.del + 1]
  IN /\ IF eventType = "JOURNAL_ENTRY_CREATED"
          THEN /\ journal_entries[user_id][d].live > 0
               /\ journal_entries' = [journal_entries EXCEPT ![user_id][d] = deleted(@)]
               /\ UNCHANGED gratitude_entries
          ELSE /\ gratitude_entries[user_id][d].live > 0
               /\ gratitude_entries' = [gratitude_entries EXCEPT ![user_id][d] = deleted(@)]
               /\ UNCHANGED journal_entries
     /\ req' = Observed(eventType, user_id)
     /\ UNCHANGED <<mood_check_ins, flip_feel, user_badges, granted, faults>>

\* INSERT INTO mood_check_ins.
CheckIn(user_id, d) ==
  /\ WrittenIn("MOOD_CHECKIN_CREATED", user_id) < MaxRecords
  /\ mood_check_ins' = [mood_check_ins EXCEPT ![user_id][d] = @ + 1]
  /\ req' = Observed("MOOD_CHECKIN_CREATED", user_id)
  /\ UNCHANGED <<journal_entries, gratitude_entries, flip_feel, user_badges, granted, faults>>

\* The categories of the questions one session answers.
QuestionSets ==
  { {"opposite_sex", "peers", "family"},
    {"family", "crises", "emotions", "recreation"} }

\* INSERT INTO flip_feel (started_at = now, finished_at NULL) with the
\* responses of the session; sessions are started one after the other.
StartSession(user_id, d, cats) ==
  /\ WrittenIn("FLIP_FEEL_ENTRY_CREATED", user_id) < MaxSessions
  /\ \A s \in flip_feel[user_id] : s.started_at <= d
  /\ flip_feel' = [flip_feel EXCEPT ![user_id] =
                     @ \cup {[id |-> Cardinality(@) + 1, started_at |-> d,
                              finished_at |-> NoDay, cats |-> cats]}]
  /\ req' = Observed("FLIP_FEEL_ENTRY_CREATED", user_id)
  /\ UNCHANGED <<journal_entries, gratitude_entries, mood_check_ins, user_badges,
                 granted, faults>>

\* UPDATE flip_feel SET finished_at = now: on the day the session was started
\* or on the day after.
FinishSession(user_id, s, d) ==
  /\ s \in flip_feel[user_id]
  /\ s.started_at \in Recent
  /\ s.finished_at = NoDay
  /\ d \in {s.started_at, s.started_at + 1} \cap Days
  /\ flip_feel' = [flip_feel EXCEPT ![user_id] =
                     (@ \ {s}) \cup {[s EXCEPT !.finished_at = d]}]
  /\ req' = Observed("FLIP_FEEL_ENTRY_CREATED", user_id)
  /\ UNCHANGED <<journal_entries, gratitude_entries, mood_check_ins, user_badges,
                 granted, faults>>

\* ------------------------------------------------- histories under the queries
\* The collaborators build the history of u1 on top of older records, then
\* the pass of the domain they wrote into runs on it (no storage fault).
PredProfiles == {Profile(0, 1), Profile(1, 8)}

PredInit ==
  /\ \E p1 \in PredProfiles :
       LET p == [u \in Users |-> IF u = "u1" THEN p1 ELSE OtherProfile]
       IN /\ journal_entries = [u \in Users |-> EntryTable(p[u])]
          /\ gratitude_entries = [u \in Users |-> EntryTable(p[u])]
          /\ mood_check_ins = [u \in Users |-> MoodTable(p[u])]
          /\ flip_feel = [u \in Users |-> FlipTable(p[u])]
  /\ user_badges = [u \in Users |-> [b \in BadgeNames |-> 0]]
  /\ granted = [u \in Users |-> [b \in BadgeNames |-> 0]]
  /\ faults = 0
  /\ req = [r \in Reqs |-> IdleReq]

\* The collaborators write into the domain eventType of u1 before any
\* notification is delivered, and into that domain only.
Building(eventType) ==
  /\ \A r \in Reqs : req[r].pc = "idle"
  /\ \A e \in EventTypes \ {eventType} : Quiet(e, "u1")

\* The notification of a domain the collaborators wrote into is delivered.
Notify(eventType) ==
  /\ req["r1"].pc = "idle"
  /\ ~Quiet(eventType, "u1")
  /\ Receive("r1", Body(TRUE, TRUE, TRUE, eventType, "u1"))

\* Journal entries, gratitude entries and mood check-ins.
EntryNext ==
  \/ \E e \in {"JOURNAL_ENTRY_CREATED", "GRATITUDE_ENTRY_CREATED"} :
       Building(e) /\ \E d \in Recent : CreateEntry(e, "u1", d)
  \/ \E e \in {"JOURNAL_ENTRY_CREATED", "GRATITUDE_ENTRY_CREATED"} :
       Building(e) /\ \E d \in Recent : SoftDeleteEntry(e, "u1", d)
  \/ Building("MOOD_CHECKIN_CREATED") /\ \E d \in Recent : CheckIn("u1", d)
  \/ \E e \in EventTypes \ {"FLIP_FEEL_ENTRY_CREATED"} : Notify(e)
  \/ Load("r1") /\ UNCHANGED faults
  \/ Query("r1") /\ UNCHANGED faults
  \/ Grant("r1") /\ UNCHANGED faults

EntrySpec == PredInit /\ [][EntryNext]_vars

\* Flip-and-feel sessions.
FlipNext ==
  \/ Building("FLIP_FEEL_ENTRY_CREATED") /\
       \E d \in Recent, cats \in QuestionSets : StartSession("u1", d, cats)
  \/ Building("FLIP_FEEL_ENTRY_CREATED") /\
       \E s \in flip_feel["u1"], d \in Days : FinishSession("u1", s, d)
  \/ Notify("FLIP_FEEL_ENTRY_CREATED")
  \/ Load("r1") /\ UNCHANGED faults
  \/ Query("r1") /\ UNCHANGED faults
  \/ Grant("r1") /\ UNCHANGED faults

FlipSpec == PredInit /\ [][FlipNext]_vars

\* The collaborators write journal entries of u1 at any time, also while the
\* journal pass is running (no storage fault).
LiveNext ==
  \/ \E d \in Recent : CreateEntry("JOURNAL_ENTRY_CREATED", "u1", d)
  \/ \E d \in Recent : SoftDeleteEntry("JOURNAL_ENTRY_CREATED", "u1", d)
  \/ Notify("JOURNAL_ENTRY_CREATED")
  \/ Load("r1") /\ UNCHANGED faults
  \/ Query("r1") /\ UNCHANGED faults
  \/ Grant("r1") /\ UNCHANGED faults

LiveSpec == PredInit /\ [][LiveNext]_vars

\* The collaborators soft-delete journal entries of u1 at any time, before,
\* between and during the passes; the notification of u1's journal is
\* delivered, delivered twice and redelivered, with storage faults.
PermProfiles == {Profile(3, 1), Profile(1, 8)}

PermInit ==
  /\ \E p1 \in PermProfiles :
       LET p == [u \in Users |-> IF u = "u1" THEN p1 ELSE OtherProfile]
       IN /\ journal_entries = [u \in Users |-> EntryTable(p[u])]
          /\ gratitude_entries = [u \in Users |-> EntryTable(p[u])]
          /\ mood_check_ins = [u \in Users |-> MoodTable(p[u])]
          /\ flip_feel = [u \in Users |-> FlipTable(p[u])]
  /\ user_badges = [u \in Users |-> [b \in BadgeNames |-> 0]]
  /\ granted = [u \in Users |-> [b \in BadgeNames |-> 0]]
  /\ faults = 0
  /\ req = [r \in Reqs |-> IdleReq]

PermNext ==
  \/ \E d \in Days : SoftDeleteEntry("JOURNAL_ENTRY_CREATED", "u1", d)
  \/ \E r \in Reqs : Receive(r, Body(TRUE, TRUE, TRUE, "JOURNAL_ENTRY_CREATED", "u1"))
  \/ \E r \in Reqs : Redeliver(r)
  \/ \E r \in Reqs : Load(r)
  \/ \E r \in Reqs : Query(r)
  \/ \E r \in Reqs : Grant(r)

PermSpec == PermInit /\ [][PermNext]_vars

\* ------------------------------------------------------- rules in any order
\* The blocks of a worker taken in another order than the one they are
\* written in: the pass goes on with any block it has not taken yet. Each
\* block is what it is in the worker: the has() test on the loaded Set, the
\* query, the grant.
\* Variant: a query that answers false ends the pass (the blocks after it are
\* inside the if of the block before).
AnyOrder_StopAtFalse(q) ==
  LET w == WorkerOf(q.body.eventType)
      todo == {j \in DOMAIN w : badges[w[j].key] \notin q.badgeNames /\ w[j].key \notin q.queried}
  IN IF todo = {} \/ q.pc = "query"
       THEN {Respond([q EXCEPT !.worker = "ok", !.rule = 0], 204, "")}
       ELSE {[q EXCEPT !.pc = "query", !.rule = j, !.queried = @ \cup {w[j].key}] : j \in todo}

\* The ways the pass goes on: the query of a block not taken yet, or the
\* return of the worker and the 204.
AnyOrder(q) ==
  LET w == WorkerOf(q.body.eventType)
      todo == {j \in DOMAIN w : badges[w[j].key] \notin q.badgeNames /\ w[j].key \notin q.queried}
  IN IF todo = {}
       THEN {Respond([q EXCEPT !.worker = "ok", !.rule = 0], 204, "")}
       ELSE {[q EXCEPT !.pc = "query", !.rule = j, !.queried = @ \cup {w[j].key}] : j \in todo}

LoadAny(r) ==
  /\ req[r].pc = "load"
  /\ \E n \in AnyOrder([req[r] EXCEPT !.badgeNames = getUserBadges(req[r].body.userId)]) :
       req' = [req EXCEPT ![r] = n]
  /\ UNCHANGED <<tables, user_badges, granted, faults>>

QueryAny(r) ==
  LET q == req[r]
      w == WorkerOf(q.body.eventType)
      row == SqlRow(q.body.eventType, w[q.rule], q.body.userId)
  IN /\ q.pc = "query"
     /\ IF FirstRowOrFalse(<<row>>)
          THEN req' = [req EXCEPT ![r] =
                         [q EXCEPT !.pc = "grant", !.grantCalls = @ \cup {badges[w[q.rule].key]}]]
          ELSE \E n \in AnyOrder(q) : req' = [req EXCEPT ![r] = n]
     /\ UNCHANGED <<tables, user_badges, granted, faults>>

GrantAny(r) ==
  LET q == req[r]
      w == WorkerOf(q.body.eventType)
      name == badges[w[q.rule].key]
  IN /\ q.pc = "grant"
     /\ user_badges' = grantBadgeByName(q.body.userId, name)
     /\ granted' = [granted EXCEPT ![q.body.userId][name] = @ + 1]
     /\ \E n \in AnyOrder(q) : req' = [req EXCEPT ![r] = n]
     /\ UNCHANGED <<tables, faults>>

\* The badges u1 holds before the two passes: none, or one of each domain.
OrderPriors ==
  { {},
    {badges.JOURNAL_3_STREAK, badges.GRATITUDE_10_ENTRIES,
     badges.MOOD_CHECKIN_7_STREAK, badges.FLIP_AND_FEEL_FIRST} }

OrderInit ==
  /\ \E p1 \in Profiles :
       LET p == [u \in Users |-> IF u = "u1" THEN p1 ELSE OtherProfile]
       IN /\ journal_entries = [u \in Users |-> EntryTable(p[u])]
          /\ gratitude_entries = [u \in Users |-> EntryTable(p[u])]
          /\ mood_check_ins = [u \in Users |-> MoodTable(p[u])]
          /\ flip_feel = [u \in Users |-> FlipTable(p[u])]
  /\ \E prior \in OrderPriors :
       user_badges = [u \in Users |->
                        [b \in BadgeNames |-> IF u = "u1" /\ b \in prior THEN 1 ELSE 0]]
  /\ granted = [u \in Users |-> [b \in BadgeNames |-> 0]]
  /\ faults = 0
  /\ req = [r \in Reqs |-> IdleReq]

\* One notification of u1 is delivered twice: the pass of r1 takes the rules
\* in the order of the worker, the pass of r2 in any order (no storage fault).
OrderNext ==
  \/ \E e \in EventTypes : Receive("r1", Body(TRUE, TRUE, TRUE, e, "u1"))
  \/ Receive("r2", req["r1"].body)
  \/ Load("r1") /\ UNCHANGED faults
  \/ Query("r1") /\ UNCHANGED faults
  \/ Grant("r1") /\ UNCHANGED faults
  \/ LoadAny("r2")
  \/ QueryAny("r2")
  \/ GrantAny("r2")

OrderSpec == OrderInit /\ [][OrderNext]_vars

\* ------------------------------------------------------- every set of dates
\* u1 has records on the days of one set of dates, any subset of the days
\* 1..MaxDates, the same in the four domains (two rows on the even days, one
\* finished session a day), and the pass of any one domain runs on it.
DateSets == SUBSET (1..MaxDates)

DatesInit ==
  /\ \E D \in DateSets :
       LET rows(d) == IF d \in D THEN 1 + ((d + 1) % 2) ELSE 0
       IN /\ journal_entries =
               [u \in Users |-> IF u = "u1" THEN [d \in Days |-> [live |-> rows(d), del |-> 0]]
                                ELSE EntryTable(OtherProfile)]
          /\ gratitude_entries =
               [u \in Users |-> IF u = "u1" THEN [d \in Days |-> [live |-> rows(d), del |-> 0]]
                                ELSE EntryTable(OtherProfile)]
          /\ mood_check_ins =
               [u \in Users |-> IF u = "u1" THEN [d \in Days |-> rows(d)]
                                ELSE MoodTable(OtherProfile)]
          /\ flip_feel =
               [u \in Users |->
                  IF u = "u1"
                    THEN {[id |-> d, started_at |-> d, finished_at |-> d,
                           cats |-> {validCategories[((d - 1) % Len(validCategories)) + 1]}] :
                            d \in D}
                    ELSE FlipTable(OtherProfile)]
  /\ user_badges = [u \in Users |-> [b \in BadgeNames |-> 0]]
  /\ granted = [u \in Users |-> [b \in BadgeNames |-> 0]]
  /\ faults = 0
  /\ req = [r \in Reqs |-> IdleReq]

DatesNext ==
  \/ \E e \in EventTypes : Receive("r1", Body(TRUE, TRUE, TRUE, e, "u1"))
  \/ Load("r1") /\ UNCHANGED faults
  \/ Query("r1") /\ UNCHANGED faults
  \/ Grant("r1") /\ UNCHANGED faults

DatesSpec == DatesInit /\ [][DatesNext]_vars

\* ------------------------------------------------------------------ C1
\* C1: in every reachable state, whatever the interleaving of passes
\* (concurrent and duplicate passes for one user and domain included), the
\* ledger holds at most one GrantRecord for each (user_id, badge_name).
C1_AtMostOneGrantRecord ==
  \A u \in Users, b \in BadgeNames : user_badges[u][b] <= 1

\* Two duplicate deliveries were both answered 204 and grantBadgeByName
\* returned twice for one badge.
C1_Witness ==
  /\ req["r1"].status = 204 /\ req["r2"].status = 204
  /\ req["r1"].body = req["r2"].body
  /\ \E b \in BadgeNames :
       /\ granted[req["r1"].body.userId][b] >= 2
       /\ user_badges[req["r1"].body.userId][b] = 1

\* ------------------------------------------------------------------ C2
\* C2: Grant is idempotent: a call of grantBadgeByName(u, b) that returns
\* leaves exactly one GrantRecord for (u, b), and when (u, b) was granted
\* already it leaves the whole ledger as it was.
C2_GrantIdempotent ==
  [][\A u \in Users, b \in BadgeNames :
       granted'[u][b] # granted[u][b] =>
         /\ user_badges'[u][b] = 1
         /\ user_badges[u][b] > 0 => user_badges' = user_badges]_vars

\* grantBadgeByName has returned twice for a badge, the second time with the
\* badge granted, while the user holds another badge as well.
C2_Witness ==
  \E u \in Users, b \in BadgeNames, c \in BadgeNames :
    /\ granted[u][b] = 2 /\ user_badges[u][b] = 1
    /\ c # b /\ user_badges[u][c] = 1

\* ------------------------------------------------------------------ C3
\* C3 as stated: when the pass of one trigger runs twice in sequence (the
\* history is the same), the second pass invokes Grant zero times.
C3_SecondPassNeverGrants ==
  \A r \in Reqs : req[r].second /\ Running(r) => req[r].grantCalls = {}

\* C3 as amended: in two passes in sequence each badge is granted once in
\* total, and the second pass invokes Grant only for qualifying badges that
\* were not granted when it loaded the grant set: zero times when the first
\* pass had granted every badge that qualifies.
C3_RedeliveryGrantsOnce ==
  /\ \A u \in Users, b \in BadgeNames : granted[u][b] <= 1
  /\ \A r \in Reqs :
       req[r].second /\ req[r].pc \in {"query", "grant"} =>
         /\ req[r].grantCalls \subseteq
              Qualifying(req[r].body.eventType, req[r].body.userId) \ req[r].badgeNames
         /\ getUserBadges(req[r].body.userId) \cap DomainBadges(req[r].body.eventType)
              \subseteq req[r].badgeNames \cup req[r].grantCalls

\* A second pass is past a rule whose badge the first pass had granted.
C3_Witness ==
  \E r \in Reqs :
    /\ req[r].second /\ req[r].pc \in {"query", "grant"}
    /\ \E i \in 1..(req[r].rule - 1) :
         /\ badges[WorkerOf(req[r].body.eventType)[i].key] \in req[r].badgeNames
         /\ granted[req[r].body.userId][badges[WorkerOf(req[r].body.eventType)[i].key]] = 1

\* ------------------------------------------------------------------ C4
\* C4: for a rule whose badge is in the grant set the pass loaded, the pass
\* issues neither the rule's predicate query nor Grant for the badge, also
\* when the predicate holds.
C4_AlreadyGrantedSkip ==
  \A r \in Reqs :
    req[r].pc \in {"query", "grant"} =>
      /\ \A k \in req[r].queried : badges[k] \notin req[r].badgeNames
      /\ req[r].grantCalls \cap req[r].badgeNames = {}

\* A pass has gone past a rule whose badge it loaded and whose predicate holds.
C4_Witness ==
  \E r \in Reqs :
    /\ req[r].pc \in {"query", "grant"}
    /\ \E i \in 1..(req[r].rule - 1) :
         /\ badges[WorkerOf(req[r].body.eventType)[i].key] \in req[r].badgeNames
         /\ SqlRow(req[r].body.eventType, WorkerOf(req[r].body.eventType)[i],
                   req[r].body.userId)
         /\ WorkerOf(req[r].body.eventType)[i].key \notin req[r].queried

\* ------------------------------------------------------------------ C5
\* C5: an error raised by a storage operation of a pass (the load, a predicate
\* query, a Grant) ends the pass in failure with that same error handed to the
\* caller; a pass never completes successfully after a storage error.
C5_StorageErrorPropagates ==
  \A r \in Reqs :
    /\ req[r].thrown # "none" =>
         /\ req[r].worker = "err"
         /\ req[r].rejected = req[r].thrown
         /\ req[r].pc = "done" /\ req[r].status # 204
    /\ req[r].worker = "ok" => req[r].thrown = "none"

\* A storage operation of a pass raised a timeout and the request was
\* answered 500 with it.
C5_Witness ==
  \E r \in Reqs :
    /\ req[r].thrown = "ETIMEDOUT" /\ req[r].rejected = "ETIMEDOUT"
    /\ req[r].status = 500 /\ req[r].sent = "ETIMEDOUT"

\* ------------------------------------------------------------------ C6
\* C6: when a storage operation raises while a pass is at some rule, the
\* grants the pass made before stay in the ledger (no rollback), the pass has
\* issued nothing for a later rule, and it ends there.
C6_PartialFailureLeavesPrefix ==
  [][\A r \in Reqs :
       req[r].thrown = "none" /\ req'[r].thrown # "none" =>
         LET w == WorkerOf(req[r].body.eventType)
             pending == IF req[r].pc = "grant" THEN {badges[w[req[r].rule].key]} ELSE {}
         IN /\ user_badges' = user_badges
            /\ \A b \in req[r].grantCalls \ pending : user_badges'[req[r].body.userId][b] = 1
            /\ \A j \in (req[r].rule + 1)..Len(w) :
                 /\ w[j].key \notin req[r].queried
                 /\ badges[w[j].key] \notin req[r].grantCalls
            /\ req'[r].pc = "done"]_vars

\* A pass failed after it had granted a badge, with a qualifying badge of the
\* domain left ungranted.
C6_Witness ==
  /\ req["r1"].worker = "err" /\ req["r2"].pc = "idle"
  /\ \E b \in DomainBadges(req["r1"].body.eventType) :
       user_badges[req["r1"].body.userId][b] = 1
  /\ \E b \in Qualifying(req["r1"].body.eventType, req["r1"].body.userId) :
       user_badges[req["r1"].body.userId][b] = 0

\* ------------------------------------------------------------------ C7
\* C7: no predicate operation returns false because the storage was
\* unavailable or gave no usable answer: whenever a predicate query returns
\* without an error and the pass goes on without Grant, the predicate is
\* false on the stored history.
C7_NoFalseFromStorageFault ==
  [][\A r \in Reqs :
       /\ req[r].pc = "query" /\ req'[r] # req[r]
       /\ req'[r].thrown = "none" /\ req'[r].pc # "grant"
       => ~SqlRow(req[r].body.eventType,
                  WorkerOf(req[r].body.eventType)[req[r].rule], req[r].body.userId)]_vars

\* ------------------------------------------------------------------ C8
\* C8: with redelivery after every failed pass, an unchanged history and
\* storage faults that come to an end, the trigger is acknowledged in the end,
\* and when it is acknowledged (204) the user holds every badge of the domain
\* whose predicate holds. The statement about the acknowledged state:
C8_AckedHoldsAllQualifying ==
  \A r \in Reqs :
    req[r].status = 204 =>
      Qualifying(req[r].body.eventType, req[r].body.userId)
        \subseteq getUserBadges(req[r].body.userId)

\* ------------------------------------------------------------------ C9
\* C9: a notification with an unknown event type or a malformed payload
\* (no envelope message, no data, data that is no JSON, no eventType, no
\* userId) is rejected at the boundary: every step of its request answers it
\* at once, 400 in the cases the claim lists, without a badge worker invoked
\* and with the ledger unchanged.
Malformed(b) ==
  \/ ~b.message \/ ~b.data \/ ~b.json
  \/ b.eventType \notin EventTypes
  \/ b.userId \notin Users

C9_MalformedRejected ==
  [][\A r \in Reqs :
       req'[r] # req[r] /\ Malformed(req'[r].body) =>
         /\ req'[r].pc = "done"
         /\ req'[r].worker = "none"
         /\ req'[r].status \in {400, 500}
         /\ (~req'[r].body.message \/ ~req'[r].body.data \/ req'[r].body.json)
              => req'[r].status = 400
         /\ user_badges' = user_badges]_vars

\* A notification with an unknown event type was answered 400 with no worker
\* invoked, after a pass of another request had granted a badge.
C9_Witness ==
  \E r \in Reqs :
    /\ req[r].body.json /\ req[r].body.eventType \notin EventTypes \cup {NoEvent}
    /\ req[r].status = 400 /\ req[r].worker = "none"
    /\ \E u \in Users, b \in BadgeNames : user_badges[u][b] = 1

\* ----------------------------------------------------------------- C10
\* C10: 204 is answered only when the invoked pass has completed without
\* error and 500 whenever it failed; no answer is sent while the pass runs.
C10_AckFollowsCompletion ==
  \A r \in Reqs :
    /\ req[r].status = 204 => req[r].worker = "ok" /\ req[r].pc = "done"
    /\ req[r].worker = "err" => req[r].status = 500
    /\ req[r].worker = "running" => req[r].status = 0 /\ Running(r)

\* One delivery was answered 500 after its pass failed, was delivered again
\* and answered 204 after the pass completed.
C10_Witness ==
  \E r \in Reqs :
    /\ req[r].status = 204 /\ req[r].worker = "ok" /\ req[r].second
    /\ faults > 0
    /\ \A o \in Reqs \ {r} : req[o].pc = "idle"

\* ----------------------------------------------------------------- C11
\* C11: an accepted notification starts one pass, and all the pass issues is
\* for the domain of its event type and for its user: the rules it queries
\* and the badges it calls Grant for are those of the journal worker for
\* JOURNAL_ENTRY_CREATED, of the flip-and-feel worker for
\* FLIP_FEEL_ENTRY_CREATED, of the mood worker for MOOD_CHECKIN_CREATED, of
\* the gratitude worker for GRATITUDE_ENTRY_CREATED, and a Grant that returns
\* is one of a pass of that user for a badge of that domain.
C11_OnePassOfTheDomain ==
  [][LET domain ==
           [ JOURNAL_ENTRY_CREATED |-> journalBadgeWorker,
             FLIP_FEEL_ENTRY_CREATED |-> flipAndFeelBadgeWorker,
             MOOD_CHECKIN_CREATED |-> moodBadgeWorker,
             GRATITUDE_ENTRY_CREATED |-> gratitudeBadgeWorker ]
         keys(e) == {domain[e][i].key : i \in DOMAIN domain[e]}
     IN /\ \A r \in Reqs :
             /\ req'[r] # req[r] /\ ~Malformed(req'[r].body) /\ ~Running(r) =>
                  req'[r].pc = "load" /\ req'[r].worker = "running"
             /\ req'[r].pc \in {"load", "query", "grant"} =>
                  /\ req'[r].queried \subseteq keys(req'[r].body.eventType)
                  /\ req'[r].grantCalls \subseteq
                       {badges[k] : k \in keys(req'[r].body.eventType)}
        /\ granted' # granted =>
             \A u \in Users, b \in BadgeNames :
               granted'[u][b] # granted[u][b] =>
                 \E r \in Reqs :
                   /\ req[r].pc = "grant" /\ req'[r] # req[r]
                   /\ req[r].body.userId = u
                   /\ b \in {badges[k] : k \in keys(req[r].body.eventType)}]_vars

\* A gratitude notification for a user who qualifies for badges of the
\* journal domain as well was answered 204 with a gratitude badge granted and
\* no journal badge granted.
C11_Witness ==
  \E r \in Reqs :
    /\ req[r].body.eventType = "GRATITUDE_ENTRY_CREATED" /\ req[r].status = 204
    /\ user_badges[req[r].body.userId][badges.GRATITUDE_3_STREAK] = 1
    /\ Entry_hasFirstEntry(journal_entries, req[r].body.userId)
    /\ \A i \in DOMAIN journalBadgeWorker :
         user_badges[req[r].body.userId][badges[journalBadgeWorker[i].key]] = 0

\* ----------------------------------------------------------------- C12
\* C12: hasConsecutiveDays(user, k) is true exactly when the distinct UTC
\* dates of the user's qualifying records contain k dates in a row (a date D
\* with D+1 .. D+k-1 all present): several records of one day are one date,
\* a missing day ends the run. Journal, gratitude and mood tables, every user
\* and every k up to one more than the days the collaborators write on, in
\* every state in which no pass is running (a pass does not write the tables).
C12_StreakIsRunOfDays ==
  NoneRunning =>
  \A u \in Users, k \in 1..(MaxSpan + 1) :
    LET run(dates) == \E D \in dates : \A i \in 1..(k - 1) : D + i \in dates
    IN /\ Entry_hasConsecutiveDays(journal_entries, u, k)
            = run({d \in Days : journal_entries[u][d].live > 0})
       /\ Entry_hasConsecutiveDays(gratitude_entries, u, k)
            = run({d \in Days : gratitude_entries[u][d].live > 0})
       /\ Mood_hasConsecutiveDays(u, k) = run({d \in Days : mood_check_ins[u][d] > 0})

\* The journal entries of u1 are on the dates D, D+1 and D+3, two of them on
\* D+3: the pass was answered 204 with the first-entry badge granted and the
\* 3-day streak badge not granted.
C12_Witness ==
  \E D \in Recent :
    /\ {d \in Days : journal_entries["u1"][d].live > 0} = {D, D + 1, D + 3}
    /\ journal_entries["u1"][D + 3].live = 2
    /\ req["r1"].body.eventType = "JOURNAL_ENTRY_CREATED" /\ req["r1"].status = 204
    /\ user_badges["u1"][badges.JOURNAL_FIRST_ENTRY] = 1
    /\ user_badges["u1"][badges.JOURNAL_3_STREAK] = 0

\* ----------------------------------------------------------------- C13
\* C13: hasReachedEntryCount(user, m) is true exactly when the user has at
\* least m non-deleted rows: with exactly n such rows (n > 0) it is true for
\* m = n and false for m = n + 1. Journal and gratitude tables, every user,
\* every m from 1 to two more than the rows the user has, in every state in
\* which no pass is running.
C13_CountThreshold ==
  NoneRunning =>
  \A u \in Users :
    \A t \in {journal_entries, gratitude_entries} :
      LET most == CHOOSE m \in {t[u][d].live : d \in Days} :
                    \A d \in Days : t[u][d].live <= m
          n == Cardinality({x \in Days \X (1..most) : x[2] <= t[u][x[1]].live})
      IN /\ \A m \in 1..(n + 2) : Entry_hasReachedEntryCount(t, u, m) = (m <= n)
         /\ n > 0 => /\ Entry_hasReachedEntryCount(t, u, n)
                     /\ ~Entry_hasReachedEntryCount(t, u, n + 1)

\* u1 has exactly ten journal entries that are not deleted, and a deleted
\* one: the pass was answered 204 with the badge of 10 entries granted and
\* the badge of 20 entries not granted.
C13_Witness ==
  /\ SumTo([d \in Days |-> journal_entries["u1"][d].live], MaxDay + 1) = 10
  /\ \E d \in Days : journal_entries["u1"][d].del > 0
  /\ req["r1"].body.eventType = "JOURNAL_ENTRY_CREATED" /\ req["r1"].status = 204
  /\ user_badges["u1"][badges.JOURNAL_10_ENTRIES] = 1
  /\ user_badges["u1"][badges.JOURNAL_20_ENTRIES] = 0

\* ----------------------------------------------------------------- C14
\* C14: in the journal and gratitude tables a soft-deleted row contributes
\* to none of hasFirstEntry, hasReachedEntryCount and hasConsecutiveDays:
\* each of them gives on the table what it gives on the table with the
\* deleted rows removed. Every user, every streak length up to one more than
\* the days the collaborators write on and every count up to two more than
\* the rows of the user, in every state in which no pass is running.
C14_SoftDeletedExcluded ==
  NoneRunning =>
  \A u \in Users :
    \A t \in {journal_entries, gratitude_entries} :
      LET purged == [t EXCEPT ![u] = [d \in Days |-> [live |-> t[u][d].live, del |-> 0]]]
          rows == SumTo([d \in Days |-> t[u][d].live + t[u][d].del], MaxDay + 1)
      IN /\ Entry_hasFirstEntry(t, u) = Entry_hasFirstEntry(purged, u)
         /\ \A k \in 1..(MaxSpan + 1) :
              Entry_hasConsecutiveDays(t, u, k) = Entry_hasConsecutiveDays(purged, u, k)
         /\ \A m \in 1..(rows + 2) :
              Entry_hasReachedEntryCount(t, u, m) = Entry_hasReachedEntryCount(purged, u, m)

\* The journal entries of u1 that are not deleted are on D and D+2, a deleted
\* entry is on D+1 and another deleted entry is older: the pass was answered
\* 204 with the first-entry badge granted and the 3-day streak badge not.
C14_Witness ==
  \E D \in Recent :
    /\ {d \in Days : journal_entries["u1"][d].live > 0} = {D, D + 2}
    /\ journal_entries["u1"][D + 1].del = 1
    /\ \E d \in Days \ Recent : journal_entries["u1"][d].del = 1
    /\ req["r1"].body.eventType = "JOURNAL_ENTRY_CREATED" /\ req["r1"].status = 204
    /\ user_badges["u1"][badges.JOURNAL_FIRST_ENTRY] = 1
    /\ user_badges["u1"][badges.JOURNAL_3_STREAK] = 0

\* ----------------------------------------------------------------- C15
\* C15: hasCompletedAllCategories(user, validCategories) is true exactly when
\* every one of the seven categories is the category of a question answered
\* in a session of the user with finished_at set: six of the seven give
\* false, all seven give true also when a category is answered twice, and the
\* responses of a session that is not finished do not count.
C15_AllCategoriesCovered ==
  \A u \in Users :
    Flip_hasCompletedAllCategories(u, Len(validCategories))
      = \A i \in 1..Len(validCategories) :
          \E s \in flip_feel[u] : s.finished_at # NoDay /\ validCategories[i] \in s.cats

\* The finished sessions of u1 answer six of the seven categories, one of
\* them twice, and a session that is not finished answers the seventh: the
\* pass was answered 204 with the first-session badge granted and the
\* all-categories badge not granted.
C15_Witness ==
  LET done == {s \in flip_feel["u1"] : s.finished_at # NoDay}
  IN /\ Cardinality(UNION {s.cats : s \in done}) = Len(validCategories) - 1
     /\ \E s \in done, t \in done : s # t /\ s.cats \cap t.cats # {}
     /\ \E s \in flip_feel["u1"] \ done : s.cats \ UNION {t.cats : t \in done} # {}
     /\ req["r1"].body.eventType = "FLIP_FEEL_ENTRY_CREATED" /\ req["r1"].status = 204
     /\ user_badges["u1"][badges.FLIP_AND_FEEL_FIRST] = 1
     /\ user_badges["u1"][badges.FLIP_AND_FEEL_ALL_CATEGORIES] = 0

\* ----------------------------------------------------------------- C16
\* C16: in the flip-and-feel domain only finished sessions count:
\* hasFirstEntry is true exactly when a session of the user has finished_at
\* set, and hasConsecutiveDays(k) is true exactly when the dates of
\* finished_at (not of started_at) of the user's sessions contain k dates in
\* a row; a session that was started and not finished adds to neither.
C16_OnlyFinishedSessions ==
  \A u \in Users :
    LET finished == {s.finished_at : s \in flip_feel[u]} \ {NoDay}
    IN /\ Flip_hasFirstEntry(u) = (finished # {})
       /\ \A k \in 1..(MaxSpan + 1) :
            Flip_hasConsecutiveDays(u, k)
              = \E D \in finished : \A i \in 1..(k - 1) : D + i \in finished

\* u1 has two sessions, an older one and one started on the latest days,
\* neither finished: the pass was answered 204 with no badge granted.
C16_Witness ==
  /\ Cardinality(flip_feel["u1"]) = 2
  /\ \A s \in flip_feel["u1"] : s.finished_at = NoDay
  /\ \E s \in flip_feel["u1"] : s.started_at \in Recent
  /\ req["r1"].body.eventType = "FLIP_FEEL_ENTRY_CREATED" /\ req["r1"].status = 204
  /\ \A b \in BadgeNames : user_badges["u1"][b] = 0

\* ----------------------------------------------------------------- C17
\* C17: the pass of a domain evaluates exactly the rules of the catalogue,
\* with the catalogue's parameters: every query a pass issues is the
\* predicate, with the parameter, that the catalogue gives for a rule key of
\* the pass's domain; a pass that is answered 204 has issued the query of
\* every catalogue rule of its domain whose badge was not in the grant set it
\* loaded, and of no other; and the badge of a Grant that returns is the name
\* bound to the key of the rule whose query the pass had issued.
C17_CatalogueRules ==
  [][LET catalogue ==
           [ JOURNAL_ENTRY_CREATED |->
               { Rule("JOURNAL_FIRST_ENTRY", "hasFirstEntry", 0),
                 Rule("JOURNAL_3_STREAK", "hasConsecutiveDays", 3),
                 Rule("JOURNAL_7_STREAK", "hasConsecutiveDays", 7),
                 Rule("JOURNAL_10_ENTRIES", "hasReachedEntryCount", 10),
                 Rule("JOURNAL_20_ENTRIES", "hasReachedEntryCount", 20),
                 Rule("JOURNAL_30_ENTRIES", "hasReachedEntryCount", 30) },
             FLIP_FEEL_ENTRY_CREATED |->
               { Rule("FLIP_AND_FEEL_FIRST", "hasFirstEntry", 0),
                 Rule("FLIP_AND_FEEL_ALL_CATEGORIES", "hasCompletedAllCategories", 7),
                 Rule("FLIP_AND_FEEL_7_STREAK", "hasConsecutiveDays", 7) },
             MOOD_CHECKIN_CREATED |->
               { Rule("MOOD_CHECKIN_7_STREAK", "hasConsecutiveDays", 7),
                 Rule("MOOD_CHECKIN_14_STREAK", "hasConsecutiveDays", 14) },
             GRATITUDE_ENTRY_CREATED |->
               { Rule("GRATITUDE_FIRST_ENTRY", "hasFirstEntry", 0),
                 Rule("GRATITUDE_10_ENTRIES", "hasReachedEntryCount", 10),
                 Rule("GRATITUDE_25_ENTRIES", "hasReachedEntryCount", 25),
                 Rule("GRATITUDE_50_ENTRIES", "hasReachedEntryCount", 50),
                 Rule("GRATITUDE_100_ENTRIES", "hasReachedEntryCount", 100),
                 Rule("GRATITUDE_3_STREAK", "hasConsecutiveDays", 3),
                 Rule("GRATITUDE_7_STREAK", "hasConsecutiveDays", 7) } ]
     IN /\ \A r \in Reqs :
             /\ req'[r].pc \in {"query", "grant"} =>
                  WorkerOf(req'[r].body.eventType)[req'[r].rule]
                    \in catalogue[req'[r].body.eventType]
             /\ req[r].pc \in {"query", "grant"} /\ req'[r].status = 204 =>
                  req[r].queried =
                    {c.key : c \in {x \in catalogue[req[r].body.eventType] :
                                      badges[x.key] \notin req[r].badgeNames}}
        /\ granted' # granted =>
             \A u \in Users, b \in BadgeNames :
               granted'[u][b] # granted[u][b] =>
                 \E r \in Reqs :
                   /\ req[r].pc = "grant" /\ req'[r] # req[r] /\ req[r].body.userId = u
                   /\ \E c \in catalogue[req[r].body.eventType] :
                        /\ c = WorkerOf(req[r].body.eventType)[req[r].rule]
                        /\ b = badges[c.key]]_vars

\* The gratitude pass of a user with 100 entries or more, on more than 7
\* days in a row, was answered 204 and the user holds the seven gratitude badges and no other.
C17_Witness ==
  \E r \in Reqs :
    /\ req[r].body.eventType = "GRATITUDE_ENTRY_CREATED" /\ req[r].status = 204
    /\ SumTo([d \in Days |-> gratitude_entries[req[r].body.userId][d].live], MaxDay + 1) >= 100
    /\ getUserBadges(req[r].body.userId) =
         { badges.GRATITUDE_FIRST_ENTRY, badges.GRATITUDE_10_ENTRIES,
           badges.GRATITUDE_25_ENTRIES, badges.GRATITUDE_50_ENTRIES,
           badges.GRATITUDE_100_ENTRIES, badges.GRATITUDE_3_STREAK,
           badges.GRATITUDE_7_STREAK }

\* ----------------------------------------------------------------- C18
\* C18: a pass loads the grant set once, before any query and any Grant, and
\* decides "already granted" on that set only: the set does not change while
\* the pass goes on, the rules a step skips are those whose badge is in the
\* set, and the rule it goes to has its badge outside the set, whatever other
\* passes have granted since the load. A Grant for a badge the ledger holds by
\* then returns without an error and leaves the ledger as it was.
C18_LoadedOnceAndUsed ==
  [][\A r \in Reqs :
       LET q == req[r]
           w == WorkerOf(q.body.eventType)
           names == IF q.pc = "load" THEN getUserBadges(q.body.userId) ELSE q.badgeNames
           last == IF req'[r].pc = "query" THEN req'[r].rule - 1 ELSE Len(w)
       IN /\ q.pc = "load" => q.queried = {} /\ q.grantCalls = {}
          /\ q.pc \in {"query", "grant"} /\ req'[r].pc \in {"query", "grant"} =>
               req'[r].badgeNames = q.badgeNames
          /\ \/ q.pc = "load" /\ req'[r].pc = "query"
             \/ q.pc \in {"query", "grant"} /\ req'[r].pc = "query" /\ req'[r].rule # q.rule
             \/ Running(r) /\ req'[r].status = 204
             => /\ \A j \in (q.rule + 1)..last : badges[w[j].key] \in names
                /\ req'[r].pc = "query" =>
                     /\ badges[w[req'[r].rule].key] \notin names
                     /\ req'[r].badgeNames = names
          /\ /\ q.pc = "grant" /\ req'[r] # q /\ faults' = faults
             /\ user_badges[q.body.userId][badges[w[q.rule].key]] = 1
             => /\ user_badges' = user_badges
                /\ req'[r].thrown = "none"]_vars

\* No storage fault: a pass that loaded the grant set without a badge has
\* called Grant for it, Grant has returned twice for the badge (once in the
\* duplicate pass), the ledger holds one record and the pass goes on.
C18_Witness ==
  \E r \in Reqs :
    /\ req[r].pc \in {"query", "grant"} /\ req[r].thrown = "none" /\ faults = 0
    /\ \E b \in req[r].grantCalls \ req[r].badgeNames :
         /\ granted[req[r].body.userId][b] = 2
         /\ user_badges[req[r].body.userId][b] = 1

\* ----------------------------------------------------------------- C19
\* C19: all the predicates of one pass are decided against one and the same
\* history of the user: whenever a query of a pass is answered, no record of
\* the pass's user and domain has been created or soft-deleted since an
\* earlier rule of the pass was decided.
C19_OneSnapshotPerPass ==
  [][\A r \in Reqs :
       /\ req[r].pc = "query"
       /\ req'[r].pc # "query" \/ req'[r].rule # req[r].rule
       => ~req[r].histChanged]_vars

\* ----------------------------------------------------------------- C20
\* C20: grants are sound. A pass calls Grant only after the query of a rule
\* of its own worker, whose badge is not in the grant set it loaded, has
\* returned true, the predicate being true for the pass's user; a query
\* that does not return true is followed by no Grant for its rule; and every
\* Grant that returns is one that was called that way, for the pass's user.
C20_GrantsSound ==
  [][/\ \A r \in Reqs :
          LET q == req[r]
              w == WorkerOf(q.body.eventType)
          IN /\ req'[r].pc = "grant" /\ q.pc # "grant" =>
                  /\ q.pc = "query" /\ req'[r].rule = q.rule
                  /\ w[q.rule].key \in q.queried
                  /\ badges[w[q.rule].key] \notin q.badgeNames
                  /\ SqlRow(q.body.eventType, w[q.rule], q.body.userId)
                  /\ req'[r].grantCalls = q.grantCalls \cup {badges[w[q.rule].key]}
             /\ Running(r) /\ req'[r].pc \in {"load", "query"} =>
                  req'[r].grantCalls = q.grantCalls
     /\ granted' # granted =>
          \A u \in Users, b \in BadgeNames :
            granted'[u][b] # granted[u][b] =>
              \E r \in Reqs :
                /\ req[r].pc = "grant" /\ req'[r] # req[r] /\ req[r].body.userId = u
                /\ b = badges[WorkerOf(req[r].body.eventType)[req[r].rule].key]
                /\ b \in req[r].grantCalls \ req[r].badgeNames]_vars

\* A pass has evaluated a rule to false and left its badge ungranted, after
\* it had granted the badge of a rule it evaluated to true, and goes on.
C20_Witness ==
  \E r \in Reqs :
    LET w == WorkerOf(req[r].body.eventType)
        u == req[r].body.userId
    IN /\ req[r].pc = "query" /\ faults = 0
       /\ \E i \in 1..(req[r].rule - 1), j \in 1..(req[r].rule - 1) :
            /\ i < j
            /\ badges[w[i].key] \in req[r].grantCalls
            /\ granted[u][badges[w[i].key]] = 1
            /\ w[j].key \in req[r].queried
            /\ ~SqlRow(req[r].body.eventType, w[j], u)
            /\ badges[w[j].key] \notin req[r].grantCalls
            /\ user_badges[u][badges[w[j].key]] = 0

\* ----------------------------------------------------------------- C21
\* C21: grants are complete on success: when a pass completes without error
\* (it is answered 204) on a history that did not change during it, the user
\* then holds every badge of the domain whose predicate holds on the history,
\* and the badges the pass called Grant for are exactly the badges of the
\* domain's rules that hold and were not in the grant set it loaded.
C21_CompleteOnSuccess ==
  [][\A r \in Reqs :
       Running(r) /\ req'[r].status = 204 /\ ~req[r].histChanged =>
         LET e == req[r].body.eventType
             u == req[r].body.userId
             names == IF req[r].pc = "load" THEN getUserBadges(u) ELSE req[r].badgeNames
         IN /\ \A b \in Qualifying(e, u) : user_badges'[u][b] > 0
            /\ req[r].grantCalls = Qualifying(e, u) \ names]_vars

\* ----------------------------------------------------------------- C22
\* C22: determinism and order independence: the badges a pass calls Grant
\* for are a function of the history and of the grant set the pass loaded
\* (the badges of the domain's rules that hold and were not loaded), whatever
\* the order in which the pass takes the rules and whatever has been granted
\* since the load; and of two passes of one notification that loaded the
\* same grant set, each rule both have decided has the same outcome in both.
C22_DeterministicAnyOrder ==
  [][\A r \in Reqs :
       Running(r) /\ req'[r].status = 204 =>
         LET e == req[r].body.eventType
             u == req[r].body.userId
             names == IF req[r].pc = "load" THEN getUserBadges(u) ELSE req[r].badgeNames
         IN /\ req[r].grantCalls = Qualifying(e, u) \ names
            /\ \A o \in Reqs \ {r} :
                 /\ req[o].pc \in {"query", "grant"}
                 /\ req[o].body = req[r].body /\ req[o].badgeNames = names
                 => LET pending == IF req[o].pc = "query"
                                     THEN {WorkerOf(e)[req[o].rule].key} ELSE {}
                    IN \A k \in req[o].queried \ pending :
                         (badges[k] \in req[o].grantCalls) = (badges[k] \in req[r].grantCalls)]_vars

\* The pass in the order of the worker was answered 204; the other pass took
\* the last rule of the worker before the first one, which it is querying now,
\* and both passes have granted one badge (so both had loaded the grant set
\* without it), while the user holds a badge from before.
C22_Witness ==
  LET w == WorkerOf(req["r2"].body.eventType)
  IN /\ req["r1"].status = 204 /\ req["r2"].body = req["r1"].body
     /\ req["r2"].pc = "query" /\ req["r2"].rule = 1
     /\ w[Len(w)].key \in req["r2"].queried
     /\ req["r2"].badgeNames # {}
     /\ \E b \in req["r2"].grantCalls : granted["u1"][b] = 2

\* ----------------------------------------------------------------- C23
\* C23: a pass for (domain, user) changes only the grants of that user for
\* badges of that domain: every step that changes the ledger is the Grant of
\* one pass and changes nothing for another user or for a badge of another
\* domain; a step in which a storage operation fails changes nothing in the
\* ledger; and a pass starts with nothing kept from an earlier pass (its
\* state is that of a fresh call with the notification's payload).
C23_PassFrame ==
  [][LET domainBadges ==
           [ JOURNAL_ENTRY_CREATED |->
               { badges.JOURNAL_FIRST_ENTRY, badges.JOURNAL_3_STREAK, badges.JOURNAL_7_STREAK,
                 badges.JOURNAL_10_ENTRIES, badges.JOURNAL_20_ENTRIES,
                 badges.JOURNAL_30_ENTRIES },
             FLIP_FEEL_ENTRY_CREATED |->
               { badges.FLIP_AND_FEEL_FIRST, badges.FLIP_AND_FEEL_ALL_CATEGORIES,
                 badges.FLIP_AND_FEEL_7_STREAK },
             MOOD_CHECKIN_CREATED |->
               { badges.MOOD_CHECKIN_7_STREAK, badges.MOOD_CHECKIN_14_STREAK },
             GRATITUDE_ENTRY_CREATED |->
               { badges.GRATITUDE_FIRST_ENTRY, badges.GRATITUDE_10_ENTRIES,
                 badges.GRATITUDE_25_ENTRIES, badges.GRATITUDE_50_ENTRIES,
                 badges.GRATITUDE_100_ENTRIES, badges.GRATITUDE_3_STREAK,
                 badges.GRATITUDE_7_STREAK } ]
     IN /\ user_badges' # user_badges =>
             \E r \in Reqs :
               /\ req[r].pc = "grant" /\ req'[r] # req[r]
               /\ \A u \in Users, b \in BadgeNames :
                    user_badges'[u][b] # user_badges[u][b] =>
                      /\ u = req[r].body.userId
                      /\ b \in domainBadges[req[r].body.eventType]
        /\ \A r \in Reqs :
             /\ req[r].thrown = "none" /\ req'[r].thrown # "none" =>
                  user_badges' = user_badges
             /\ ~Running(r) /\ req'[r].pc = "load" =>
                  [req'[r] EXCEPT !.second = FALSE] =
                    [IdleReq EXCEPT !.body = req'[r].body, !.pc = "load",
                                    !.worker = "running"]]_vars

\* A pass of u1 failed after it had granted a badge of its domain, while u2
\* holds journal badges from an acknowledged journal pass: u1 holds no badge
\* of another domain and u2 holds journal badges only.
C23_Witness ==
  \E r \in Reqs, o \in Reqs :
    /\ req[r].body.userId = "u1" /\ req[r].status = 500 /\ req[r].worker = "err"
    /\ req[o].body.userId = "u2" /\ req[o].status = 204
    /\ getUserBadges("u1") # {}
    /\ getUserBadges("u1") \subseteq DomainBadges(req[r].body.eventType)
    /\ getUserBadges("u2") # {}
    /\ getUserBadges("u2") \subseteq DomainBadges("JOURNAL_ENTRY_CREATED")

\* ----------------------------------------------------------------- C24
\* C24: grants are permanent: no step (of a pass that succeeds, fails, is
\* redelivered or runs beside another, or of a collaborator that creates or
\* soft-deletes activity) removes or changes a GrantRecord, so a badge the
\* ledger holds it holds ever after and a badge for which Grant has returned
\* is held, also when the entries that earned it are soft-deleted.
C24_GrantsPermanent ==
  [][\A u \in Users, b \in BadgeNames :
       /\ user_badges[u][b] > 0 => user_badges'[u][b] = user_badges[u][b]
       /\ user_badges'[u][b] >= user_badges[u][b]
       /\ granted'[u][b] > 0 => user_badges'[u][b] > 0]_vars

\* u1 holds the first-entry badge a pass granted, every journal entry of u1
\* has been soft-deleted since, and a later pass, which loaded the badge, is
\* at a query.
C24_Witness ==
  \E r \in Reqs :
    /\ req[r].pc = "query" /\ req[r].body.userId = "u1"
    /\ badges.JOURNAL_FIRST_ENTRY \in req[r].badgeNames
    /\ granted["u1"][badges.JOURNAL_FIRST_ENTRY] = 1
    /\ user_badges["u1"][badges.JOURNAL_FIRST_ENTRY] = 1
    /\ ~Entry_hasFirstEntry(journal_entries, "u1")
    /\ \E d \in Days : journal_entries["u1"][d].del >= 8

\* ----------------------------------------------------------------- C25
\* C25: the engine is read-only on activity data: every step of a request
\* (its validation, the load of the grant set, a predicate query of one of
\* the four repositories, a Grant, a failure, the answer) leaves the journal,
\* gratitude, mood check-in and flip-and-feel tables exactly as they were.
C25_ActivityReadOnly ==
  [][(\E r \in Reqs : req'[r] # req[r]) =>
       /\ journal_entries' = journal_entries
       /\ gratitude_entries' = gratitude_entries
       /\ mood_check_ins' = mood_check_ins
       /\ flip_feel' = flip_feel]_vars

\* A pass of u1 was answered 204 after it had issued queries and granted a
\* badge, another request failed, and the tables of u1 are those of the
\* history the run started with, soft-deleted row and unfinished session
\* included.
C25_Witness ==
  \E r \in Reqs, o \in Reqs, p \in Profiles :
    /\ req[r].status = 204 /\ req[r].worker = "ok" /\ req[r].body.userId = "u1"
    /\ req[o].status = 500 /\ req[o].worker = "err"
    /\ \E b \in DomainBadges(req[r].body.eventType) : granted["u1"][b] > 0
    /\ journal_entries["u1"] = EntryTable(p)
    /\ gratitude_entries["u1"] = EntryTable(p)
    /\ mood_check_ins["u1"] = MoodTable(p)
    /\ flip_feel["u1"] = FlipTable(p)
    /\ journal_entries["u1"][p.n + 1].del = 1

\* ----------------------------------------------------------------- C26
\* C26: no internal retry: within one pass the load is awaited once, the
\* query of a rule is issued once and Grant for a rule is called once (the
\* pass only moves forward through the rules); the step in which a storage
\* operation raises ends the pass, with 500 and no write; and a request that
\* was answered moves again only by a redelivery after a 500, which starts a
\* new pass at its load with nothing issued.
C26_NoInternalRetry ==
  [][\A r \in Reqs :
       req'[r] # req[r] =>
         LET q == req[r]
             n == req'[r]
             w == WorkerOf(q.body.eventType)
         IN /\ q.pc = "load" => n.pc \in {"query", "done"}
            /\ q.pc = "query" =>
                 \/ n.pc = "grant" /\ n.rule = q.rule
                 \/ n.pc = "query" /\ n.rule > q.rule /\ w[n.rule].key \notin q.queried
                 \/ n.pc = "done"
            /\ q.pc = "grant" =>
                 \/ n.pc = "query" /\ n.rule > q.rule /\ w[n.rule].key \notin q.queried
                 \/ n.pc = "done"
            /\ Running(r) /\ n.pc = "grant" => badges[w[n.rule].key] \notin q.grantCalls
            /\ q.thrown = "none" /\ n.thrown # "none" =>
                 /\ n.pc = "done" /\ n.status = 500
                 /\ user_badges' = user_badges /\ granted' = granted
            /\ q.pc = "done" =>
                 /\ q.status = 500
                 /\ n.pc = "load" /\ n.body = q.body
                 /\ n.queried = {} /\ n.grantCalls = {} /\ n.thrown = "none"]_vars

\* The pass of a delivery failed at a storage operation after it had granted
\* a badge; the message was redelivered and the new pass, which loaded that
\* badge, is at a query or a Grant of a later rule.
C26_Witness ==
  \E r \in Reqs :
    /\ req[r].second /\ req[r].pc \in {"query", "grant"} /\ faults = 1
    /\ \A o \in Reqs \ {r} : req[o].pc = "idle"
    /\ req[r].badgeNames # {}
    /\ \A b \in req[r].badgeNames : granted[req[r].body.userId][b] = 1

\* ----------------------------------------------------------------- C27
\* C27: the date-minus-rank grouping of hasConsecutiveDays is the same as a
\* direct longest-run computation: for every set of distinct dates within
\* 1..MaxDates, two dates have the same group key (date minus row number in
\* ascending order) exactly when every day between them is in the set, so
\* for every k the query answers true exactly when the longest unbroken run
\* has at least k days; and the journal, gratitude, mood check-in and
\* flip-and-feel implementations give that same answer on the same dates.
\* Stated on the history as it is before the notification is received (no
\* step of the pass writes the tables).
C27_RankGroupingIsLongestRun ==
  (\A r \in Reqs : req[r].pc = "idle") =>
  LET dates == {d \in Days : mood_check_ins["u1"][d] > 0}
      grp(d) == d - RowNumber(dates, d)
      sameRun(a, b) == \A x \in Days : (a <= x /\ x <= b) \/ (b <= x /\ x <= a) => x \in dates
      runFrom(a) == Cardinality({b \in dates : a <= b /\ sameRun(a, b)})
      longest == IF dates = {} THEN 0
                 ELSE CHOOSE n \in {runFrom(a) : a \in dates} :
                        \A a \in dates : runFrom(a) <= n
  IN /\ \A a \in dates, b \in dates : (grp(a) = grp(b)) = sameRun(a, b)
     /\ \A k \in 1..(MaxDates + 1) :
          /\ Mood_hasConsecutiveDays("u1", k) = (longest >= k)
          /\ Entry_hasConsecutiveDays(journal_entries, "u1", k) = (longest >= k)
          /\ Entry_hasConsecutiveDays(gratitude_entries, "u1", k) = (longest >= k)
          /\ Flip_hasConsecutiveDays("u1", k) = (longest >= k)

\* The dates of u1 are a run of three days and, after a gap of one day, a run
\* of four: seven distinct dates, the longest run has four. The journal pass
\* was answered 204 with the 3-day streak badge granted and the 7-day streak
\* badge not granted.
C27_Witness ==
  /\ {d \in Days : journal_entries["u1"][d].live > 0} = {1, 2, 3, 5, 6, 7, 8}
  /\ journal_entries["u1"][2].live = 2
  /\ req["r1"].body.eventType = "JOURNAL_ENTRY_CREATED" /\ req["r1"].status = 204
  /\ user_badges["u1"][badges.JOURNAL_3_STREAK] = 1
  /\ user_badges["u1"][badges.JOURNAL_7_STREAK] = 0

\* ----------------------------------------------------------------- C28
\* C28: a request whose message data does not decode to a JSON payload is a
\* bad request: it is answered 400, with no badge worker invoked, and 500 is
\* answered only when an invoked badge worker failed.
C28_UndecodableIsBadRequest ==
  \A r \in Reqs :
    /\ req[r].pc = "done" /\ req[r].body.message /\ req[r].body.data /\ ~req[r].body.json
         => req[r].status = 400 /\ req[r].worker = "none"
    /\ req[r].status = 500 => req[r].worker = "err"

\* ----------------------------------------------------------------- C29
\* C29: threshold ordering: from an empty ledger and with a history that
\* does not shrink and does not change during a pass, in every reachable
\* state (after failed, redelivered and concurrent passes as well) a user who
\* holds a higher-threshold badge of a family holds every lower one.
C29_ThresholdOrdering ==
  LET families ==
        { <<"JOURNAL_3_STREAK", "JOURNAL_7_STREAK">>,
          <<"JOURNAL_FIRST_ENTRY", "JOURNAL_10_ENTRIES", "JOURNAL_20_ENTRIES",
            "JOURNAL_30_ENTRIES">>,
          <<"GRATITUDE_FIRST_ENTRY", "GRATITUDE_10_ENTRIES", "GRATITUDE_25_ENTRIES",
            "GRATITUDE_50_ENTRIES", "GRATITUDE_100_ENTRIES">>,
          <<"GRATITUDE_3_STREAK", "GRATITUDE_7_STREAK">>,
          <<"MOOD_CHECKIN_7_STREAK", "MOOD_CHECKIN_14_STREAK">> }
  IN \A u \in Users, f \in families :
       \A i \in DOMAIN f, j \in DOMAIN f :
         i < j /\ user_badges[u][badges[f[j]]] > 0 => user_badges[u][badges[f[i]]] > 0

\* ----------------------------------------------------------------- C30
\* C30: every request handled by handleBadgeAwarding gets exactly one
\* response, with status 204, 400 or 500: a call that has ended (on any path:
\* invalid envelope, missing data, missing fields, unknown event type, worker
\* success, worker failure) has sent one response and no second one, and a
\* call that has not ended has sent none.
C30_ExactlyOneResponse ==
  \A r \in Reqs :
    /\ req[r].responses \in {0, 1}
    /\ (req[r].pc = "done") = (req[r].responses = 1)
    /\ req[r].responses = 1 => req[r].status \in {204, 400, 500}
    /\ req[r].responses = 0 => req[r].status = 0 /\ req[r].sent = ""

\* One request was answered 500 after its worker failed and was not answered
\* again; the other was answered 400 before any worker was invoked.
C30_Witness ==
  \E r \in Reqs, o \in Reqs :
    /\ req[r].status = 500 /\ req[r].worker = "err" /\ req[r].responses = 1
    /\ req[o].status = 400 /\ req[o].worker = "none" /\ req[o].responses = 1
    /\ req[o].body.message /\ ~req[o].body.data

====
